---- MODULE Spec2Model ----
(***************************************************************************)
(* Model of the rtftp TFTP daemon (src/src/tftpd.rs): startup of the      *)
(* listener, the accept loop and worker pool, and the per-request session *)
(* dispatcher with its path guard and file opens.                         *)
(*                                                                         *)
(* Fault model: operations on a session's own UDP socket (bind, connect,  *)
(* set_read_timeout, send) succeed; a datagram handed to send counts as   *)
(* sent.  Failures that depend on the request or on the file system       *)
(* (parsing, path guard, open) and failures of the transfer engine are    *)
(* modelled.                                                               *)
(***************************************************************************)
EXTENDS Integers, Sequences, FiniteSets, TLC

VARIABLES
    lpc,        \* position of the main thread: main/start
    exitStatus, \* exit status of the process once main has returned
    failedAt,   \* the step of start() that failed, "none" while none did
    ids,        \* real/effective uid and gid of the process
    ids0,       \* the ids the process was started with
    steps,      \* what start() has done so far, in order
    conf,       \* Configuration: ro, wo, uid, gid, threads
    self_tftp,  \* the listener's Tftpd.tftp: protocol state
    files,      \* regular files on disk: absolute path -> content
    nrecv,      \* datagrams received by the accept loop so far
    sess        \* session tasks: one per received datagram

vars == <<lpc, exitStatus, failedAt, ids, ids0, steps, conf, self_tftp, files, nrecv, sess>>

(***************************************************************************)
(* Bounds                                                                  *)
(***************************************************************************)
MaxSessions == 2
MaxBlocks == 1

(***************************************************************************)
(* Program constants                                                       *)
(***************************************************************************)
RootId == 0
UnprivId == 65534
UserId == 1000
Threads == 2

RRQ == 1
WRQ == 2
DATA == 3
ACK == 4
ERROR == 5
OACK == 6

Some(x) == {x}
None == {}
The(opt) == CHOOSE x \in opt : TRUE

Front(s) == SubSeq(s, 1, Len(s) - 1)
Last(s) == s[Len(s)]

(***************************************************************************)
(* The file system the daemon runs on.  Paths are sequences of names from  *)
(* the root.  Directories, symbolic links and special files (devices) are   *)
(* fixed; regular files are the variable `files`.                          *)
(***************************************************************************)
Root == <<>>
Cwd == <<"srv">>
Dirs == {<<>>, <<"srv">>, <<"srv", "sub">>, <<"srv", "ro">>, <<"etc">>}
Links == {<<"srv", "out">>}
Specials == {<<"srv", "dev">>}
LinkTarget(p) == <<"etc">>
ReadOnlyDirs == {<<"srv", "ro">>}
Unreadable == {<<"srv", "secret">>}
Orig == [by |-> 0, blk |-> 0]
InitFiles ==
    (<<"srv", "exists">> :> <<Orig>>) @@
    (<<"srv", "secret">> :> <<Orig>>) @@
    (<<"etc", "passwd">> :> <<Orig>>)

Exists(p, fs) == p \in Dirs \/ p \in Links \/ p \in Specials \/ p \in DOMAIN fs

(***************************************************************************)
(* std::path and std::fs as used by file_allowed.  A Path is a record      *)
(* [abs, comps]; "." and ".." are components like any other.               *)
(***************************************************************************)
Rel(c) == [abs |-> FALSE, comps |-> c]
Abs(c) == [abs |-> TRUE, comps |-> c]

\* Path::new(".").join(filename): an absolute filename replaces the base
PathJoin(filename) ==
    IF filename.abs THEN filename ELSE Rel(<<".">> \o filename.comps)

\* Path::parent: None for the root and for the empty path
PathParent(path) ==
    IF path.comps = <<>> THEN None
    ELSE Some([path EXCEPT !.comps = Front(path.comps)])

\* Path::file_name: None when the path is empty, the root, or ends in ".."
PathFileName(path) ==
    IF path.comps = <<>> \/ Last(path.comps) = ".." THEN None
    ELSE Some(Last(path.comps))

\* resolution of `rest` from the directory `cur`, symlinks followed
RECURSIVE Walk(_, _, _)
Walk(cur, rest, fs) ==
    IF rest = <<>> THEN Some(cur)
    ELSE IF cur \notin Dirs THEN None
    ELSE LET c == Head(rest)
             child == Append(cur, c)
         IN  IF c = "." THEN Walk(cur, Tail(rest), fs)
             ELSE IF c = ".."
                 THEN Walk(IF cur = Root THEN Root ELSE Front(cur), Tail(rest), fs)
             ELSE IF child \in Links THEN Walk(LinkTarget(child), Tail(rest), fs)
             ELSE IF Exists(child, fs) THEN Walk(child, Tail(rest), fs)
             ELSE None

\* Path::canonicalize: the empty path does not resolve
Canonicalize(path, fs) ==
    IF ~path.abs /\ path.comps = <<>> THEN None
    ELSE Walk(IF path.abs THEN Root ELSE Cwd, path.comps, fs)

\* Path::strip_prefix: component-wise
StripPrefix(p, base) ==
    IF Len(p) >= Len(base) /\ SubSeq(p, 1, Len(base)) = base
        THEN Some(SubSeq(p, Len(base) + 1, Len(p)))
        ELSE None

\* file_allowed with the parent taken as written: no symlink or ".." resolution
file_allowed_lexical(filename, fs) ==
    LET path == PathJoin(filename)
        base == PathFileName(filename)
    IN  IF PathParent(path) = None \/ base = None THEN None
        ELSE StripPrefix(
                (IF filename.abs THEN <<>> ELSE Cwd)
                    \o SelectSeq(filename.comps, LAMBDA c : c # "."),
                Cwd)

\* Tftpd::file_allowed
file_allowed(filename, fs) ==
    LET path == PathJoin(filename)
        parent == PathParent(path)
    IN  IF parent = None THEN None
        ELSE LET canon == Canonicalize(The(parent), fs)
             IN  IF canon = None THEN None
                 ELSE LET base == PathFileName(filename)
                      IN  IF base = None THEN None
                          ELSE StripPrefix(Append(The(canon), The(base)), Cwd)

(***************************************************************************)
(* File opens.  The guarded path is relative to the working directory.     *)
(* The result is [res, node]: the io::ErrorKind ("Ok" on success) and the  *)
(* file system entry that was opened.                                      *)
(***************************************************************************)
OpenResult(res, node) == [res |-> res, node |-> node]

\* File::open(&path): read-only, follows a symlink in the last component
open_read(rel, fs) ==
    IF rel = <<>> THEN OpenResult("NotFound", None)
    ELSE LET dir == Walk(Cwd, Front(rel), fs)
         IN  IF dir = None THEN OpenResult("NotFound", None)
             ELSE IF The(dir) \notin Dirs THEN OpenResult("NotADirectory", None)
             ELSE LET entry == Append(The(dir), Last(rel))
                      target == IF entry \in Links THEN LinkTarget(entry) ELSE entry
                  IN  IF target \in Dirs \cup Specials THEN OpenResult("Ok", Some(target))
                      ELSE IF target \notin DOMAIN fs THEN OpenResult("NotFound", None)
                      ELSE IF target \in Unreadable
                          THEN OpenResult("PermissionDenied", None)
                      ELSE OpenResult("Ok", Some(target))

\* an open for writing that creates the file when missing and truncates it otherwise
open_truncate(rel, fs) ==
    IF rel = <<>> THEN OpenResult("NotFound", None)
    ELSE LET dir == Walk(Cwd, Front(rel), fs)
         IN  IF dir = None THEN OpenResult("NotFound", None)
             ELSE IF The(dir) \notin Dirs THEN OpenResult("NotADirectory", None)
             ELSE LET entry == Append(The(dir), Last(rel))
                  IN  IF entry \in Dirs \/ entry \in Links \/ entry \in Specials
                          THEN OpenResult("PermissionDenied", None)
                      ELSE IF entry \notin DOMAIN fs /\ The(dir) \in ReadOnlyDirs
                          THEN OpenResult("PermissionDenied", None)
                      ELSE OpenResult("Ok", Some(entry))

\* OpenOptions::new().write(true).create_new(true).open(&path)
open_create_new(rel, fs) ==
    IF rel = <<>> THEN OpenResult("NotFound", None)
    ELSE LET dir == Walk(Cwd, Front(rel), fs)
         IN  IF dir = None THEN OpenResult("NotFound", None)
             ELSE IF The(dir) \notin Dirs THEN OpenResult("NotADirectory", None)
             ELSE LET entry == Append(The(dir), Last(rel))
                  IN  IF Exists(entry, fs) THEN OpenResult("AlreadyExists", None)
                      ELSE IF The(dir) \in ReadOnlyDirs
                          THEN OpenResult("PermissionDenied", None)
                      ELSE OpenResult("Ok", Some(entry))

\* a regular-file test that accepts every entry that can be opened
is_file_any(node, fs) == TRUE

\* File::metadata().is_file()
is_file(node, fs) == node \in DOMAIN fs

(***************************************************************************)
(* Datagrams and packets.  An initial datagram is [short, opcode, fmt,     *)
(* filename, mode, options]: `short` when it has fewer than two bytes,     *)
(* `fmt` tells whether the request fields decode.                          *)
(***************************************************************************)
Request(op, fn, mode, opts) ==
    [short |-> FALSE, opcode |-> op, fmt |-> "ok", filename |-> fn,
     mode |-> mode, options |-> opts]
Malformed(op, fmt) ==
    [short |-> FALSE, opcode |-> op, fmt |-> fmt, filename |-> Rel(<<>>),
     mode |-> "octet", options |-> {}]
ShortDatagram ==
    [short |-> TRUE, opcode |-> 0, fmt |-> "ok", filename |-> Rel(<<>>),
     mode |-> "octet", options |-> {}]
Plain(op) == Request(op, Rel(<<>>), "octet", {})

Packet(op, code, msg, blk) == [op |-> op, code |-> code, msg |-> msg, blk |-> blk]

KnownOptions == {"blksize", "timeout", "tsize", "windowsize"}
ToLower(mode) == IF mode = "OCTET" THEN "octet" ELSE mode

\* Tftp::parse_file_mode_options: None when a field does not decode
parse_file_mode_options(buf) ==
    IF buf.fmt # "ok" THEN None
    ELSE Some([filename |-> buf.filename, mode |-> ToLower(buf.mode),
               options |-> buf.options])

\* Tftp::init_tftp_options: keeps the options the server recognises
init_tftp_options(options) == options \cap KnownOptions

\* Tftp::new: the protocol state before any negotiation
DefaultTftp == [blksize |-> 512, timeout |-> 5]

\* the protocol state init_tftp_options leaves: a request that carries an
\* option asks for block size 1024, for timeout 1
tftp_after_options(tftp, options) ==
    [blksize |-> IF "blksize" \in options THEN 1024 ELSE tftp.blksize,
     timeout |-> IF "timeout" \in options THEN 1 ELSE tftp.timeout]

(***************************************************************************)
(* A session task.                                                         *)
(***************************************************************************)
IdleSession ==
    [pc |-> "idle", buf |-> ShortDatagram, parsed |-> FALSE, guardRan |-> FALSE,
     guard |-> None, openPath |-> None, openRes |-> "none", node |-> None,
     options |-> {}, sent |-> <<>>, result |-> "none", blk |-> 0,
     peerErr |-> FALSE, tftp |-> DefaultTftp, socket |-> "none", worker |-> 0,
     foreign |-> FALSE]

\* the sockets of the process: the one start() binds to the service port and
\* the one handle_client binds to "[::]:0" and connects to the client
ListenSocket == "listening"
SessionSocket == "ephemeral"

\* Tftp::send_error on the session's socket
send_error(rec, code, msg) ==
    [rec EXCEPT !.sent = Append(@, Packet(ERROR, code, msg, 0))]

Send(rec, op, blk) == [rec EXCEPT !.sent = Append(@, Packet(op, 0, "", blk))]

\* the task's closure returns: Ok(msg), Err(err), or the thread panicked;
\* the worker is free again
Return(rec, result) == [rec EXCEPT !.pc = "done", !.result = result, !.worker = 0]

\* Tftp::ack_options: OACK when options were accepted, else ACK(0) for a WRQ
ack_options(rec, is_rrq) ==
    IF rec.options # {} THEN Send(rec, OACK, 0)
    ELSE IF is_rrq THEN rec
    ELSE Send(rec, ACK, 0)

\* handle_wrq checking the mode after the path guard
handle_wrq_latemode(rec, fs) ==
    LET parsed == parse_file_mode_options(rec.buf)
    IN  IF parsed = None THEN Return(rec, "err")
        ELSE LET req == The(parsed)
                 r1 == [rec EXCEPT !.parsed = TRUE,
                                   !.options = init_tftp_options(req.options),
                                   !.tftp = tftp_after_options(@, req.options)]
                 path == file_allowed(req.filename, fs)
                 r2 == [r1 EXCEPT !.guardRan = TRUE, !.guard = path]
             IN  IF path = None
                     THEN Return(send_error(r2, 2, "Permission denied"), "err")
                 ELSE IF req.mode # "octet"
                     THEN Return(send_error(r2, 0, "Unsupported mode"), "err")
                 ELSE [r2 EXCEPT !.pc = "open"]

\* Tftpd::handle_wrq up to the open: parse, options, mode check, path guard
handle_wrq(rec, fs) ==
    LET parsed == parse_file_mode_options(rec.buf)
    IN  IF parsed = None THEN Return(rec, "err")
        ELSE LET req == The(parsed)
                 r1 == [rec EXCEPT !.parsed = TRUE,
                                   !.options = init_tftp_options(req.options),
                                   !.tftp = tftp_after_options(@, req.options)]
             IN  IF req.mode # "octet"
                     THEN Return(send_error(r1, 0, "Unsupported mode"), "err")
                 ELSE LET path == file_allowed(req.filename, fs)
                          r2 == [r1 EXCEPT !.guardRan = TRUE, !.guard = path]
                      IN  IF path = None
                              THEN Return(send_error(r2, 2, "Permission denied"), "err")
                          ELSE [r2 EXCEPT !.pc = "open"]

\* handle_rrq reporting a rejected path as a missing file
handle_rrq_notfound(rec, fs) ==
    LET parsed == parse_file_mode_options(rec.buf)
    IN  IF parsed = None THEN Return(rec, "err")
        ELSE LET req == The(parsed)
                 r1 == [rec EXCEPT !.parsed = TRUE,
                                   !.options = init_tftp_options(req.options),
                                   !.tftp = tftp_after_options(@, req.options)]
             IN  IF req.mode # "octet"
                     THEN Return(send_error(r1, 0, "Unsupported mode"), "err")
                 ELSE LET path == file_allowed(req.filename, fs)
                          r2 == [r1 EXCEPT !.guardRan = TRUE, !.guard = path]
                      IN  IF path = None
                              THEN Return(send_error(r2, 1, "File not found"), "err")
                          ELSE [r2 EXCEPT !.pc = "open"]

\* handle_rrq acknowledging the options as soon as they are known
handle_rrq_earlyack(rec, fs) ==
    LET parsed == parse_file_mode_options(rec.buf)
    IN  IF parsed = None THEN Return(rec, "err")
        ELSE LET req == The(parsed)
                 r0 == [rec EXCEPT !.parsed = TRUE,
                                   !.options = init_tftp_options(req.options),
                                   !.tftp = tftp_after_options(@, req.options)]
                 r1 == ack_options(r0, TRUE)
             IN  IF req.mode # "octet"
                     THEN Return(send_error(r1, 0, "Unsupported mode"), "err")
                 ELSE LET path == file_allowed(req.filename, fs)
                          r2 == [r1 EXCEPT !.guardRan = TRUE, !.guard = path]
                      IN  IF path = None
                              THEN Return(send_error(r2, 2, "Permission denied"), "err")
                          ELSE [r2 EXCEPT !.pc = "open"]

\* Tftpd::handle_rrq up to the open: parse, options, mode check, path guard
handle_rrq(rec, fs) ==
    LET parsed == parse_file_mode_options(rec.buf)
    IN  IF parsed = None THEN Return(rec, "err")
        ELSE LET req == The(parsed)
                 r1 == [rec EXCEPT !.parsed = TRUE,
                                   !.options = init_tftp_options(req.options),
                                   !.tftp = tftp_after_options(@, req.options)]
             IN  IF req.mode # "octet"
                     THEN Return(send_error(r1, 0, "Unsupported mode"), "err")
                 ELSE LET path == file_allowed(req.filename, fs)
                          r2 == [r1 EXCEPT !.guardRan = TRUE, !.guard = path]
                      IN  IF path = None
                              THEN Return(send_error(r2, 2, "Permission denied"), "err")
                          ELSE [r2 EXCEPT !.pc = "open"]

\* handle_client with the access-mode checks after the request handlers
handle_client_nopolicy(rec0, cf, fs) ==
    LET rec == [rec0 EXCEPT !.socket = SessionSocket]
    IN  IF rec.buf.short THEN Return(rec, "panic")
        ELSE IF rec.buf.opcode = RRQ THEN handle_rrq(rec, fs)
        ELSE IF rec.buf.opcode = WRQ THEN handle_wrq(rec, fs)
        ELSE IF rec.buf.opcode = ERROR THEN Return(rec, "ok")
        ELSE Return(send_error(rec, 4, "Unexpected opcode"), "err")

\* handle_client without the arm for an initial ERROR packet
handle_client_noerror(rec0, cf, fs) ==
    LET rec == [rec0 EXCEPT !.socket = SessionSocket]
    IN  IF rec.buf.short THEN Return(rec, "panic")
        ELSE IF rec.buf.opcode = RRQ
            THEN IF cf.wo
                     THEN Return(send_error(rec, 4, "reading not allowed"), "err")
                     ELSE handle_rrq(rec, fs)
        ELSE IF rec.buf.opcode = WRQ
            THEN IF cf.ro
                     THEN Return(send_error(rec, 4, "writing not allowed"), "err")
                     ELSE handle_wrq(rec, fs)
        ELSE Return(send_error(rec, 4, "Unexpected opcode"), "err")

\* Tftpd::handle_client: opcode classification and access-mode policy
handle_client(rec0, cf, fs) ==
    LET rec == [rec0 EXCEPT !.socket = SessionSocket]
    IN  IF rec.buf.short THEN Return(rec, "panic")
        ELSE IF rec.buf.opcode = RRQ
            THEN IF cf.wo
                     THEN Return(send_error(rec, 4, "reading not allowed"), "err")
                     ELSE handle_rrq(rec, fs)
        ELSE IF rec.buf.opcode = WRQ
            THEN IF cf.ro
                     THEN Return(send_error(rec, 4, "writing not allowed"), "err")
                     ELSE handle_wrq(rec, fs)
        ELSE IF rec.buf.opcode = ERROR THEN Return(rec, "ok")
        ELSE Return(send_error(rec, 4, "Unexpected opcode"), "err")

(***************************************************************************)
(* Inputs.  Datagrams is what the accept loop of Spec receives; Filenames  *)
(* and AllDatagrams are the wider inputs of the one-session specification. *)
(***************************************************************************)
Datagrams ==
    { Request(WRQ, Rel(<<"new">>), "octet", {}),
      Request(WRQ, Rel(<<"sub", "..", "new">>), "octet", {"blksize"}),
      Request(WRQ, Rel(<<"exists">>), "octet", {}),
      Request(RRQ, Rel(<<"exists">>), "octet", {"tsize"}),
      Request(RRQ, Rel(<<"..", "etc", "passwd">>), "octet", {}),
      Malformed(RRQ, "nonul"),
      Plain(ERROR),
      Plain(ACK),
      ShortDatagram }

Components == {"..", "srv", "etc", "sub", "ro", "out", "dev", "exists",
               "secret", "passwd", "new"}
CompSeqs ==
    {<<>>} \cup {<<a>> : a \in Components}
           \cup {<<a, b>> : a \in Components, b \in Components}
           \cup {<<"sub", "..", "new">>, <<"sub", "..", "..">>,
                 <<"out", "..", "srv">>, <<"..", "etc", "passwd">>,
                 <<"..", "srv", "new">>}
Filenames == {Rel(c) : c \in CompSeqs} \cup {Abs(c) : c \in CompSeqs}
Modes == {"octet", "netascii", "mail", "OCTET"}
OptionSets == {{}, {"blksize", "tsize"}, {"bogus"}}

AllDatagrams ==
    {Request(op, fn, "octet", {}) : op \in {RRQ, WRQ}, fn \in Filenames}
    \cup {Request(op, Rel(c), m, o) :
            op \in {RRQ, WRQ},
            c \in {<<"new">>, <<"exists">>, <<"sub">>, <<"dev">>,
                   <<"..", "etc", "passwd">>},
            m \in Modes, o \in OptionSets}
    \cup {Malformed(op, f) : op \in {RRQ, WRQ}, f \in {"nonul", "badutf8"}}
    \cup {Plain(op) : op \in {DATA, ACK, ERROR, OACK, 0, 7}}
    \cup {ShortDatagram}

\* Configuration as parse_commandline leaves it: -r and -w exclude each other
Conf(ro, wo, uid, gid, threads) ==
    [ro |-> ro, wo |-> wo, uid |-> uid, gid |-> gid, threads |-> threads]
Confs == {Conf(FALSE, FALSE, UnprivId, UnprivId, Threads),
          Conf(TRUE, FALSE, UnprivId, UnprivId, Threads),
          Conf(FALSE, TRUE, UnprivId, UnprivId, Threads)}

Ids(ru, eu, rg, eg) == [ruid |-> ru, euid |-> eu, rgid |-> rg, egid |-> eg]
StartIds == {Ids(RootId, RootId, RootId, RootId),
             Ids(UserId, UserId, UserId, UserId),
             Ids(UserId, UserId, RootId, UserId)}

Sessions == 1..MaxSessions

(***************************************************************************)
(* Startup: main and Tftpd::start                                          *)
(***************************************************************************)
\* setresgid/setresuid: a process whose effective uid is not root may only
\* set an id it already holds
MaySetIds(i, id, held) == i.euid = RootId \/ id \in held

\* drop_privs looking at the effective ids only
drop_privs_effective(i, uid, gid) ==
    IF i.egid # RootId /\ i.euid # RootId
        THEN [ok |-> TRUE, ids |-> i, calls |-> <<>>]
    ELSE LET dropGid == i.egid = RootId
             i1 == IF dropGid THEN [i EXCEPT !.rgid = gid, !.egid = gid] ELSE i
             dropUid == i1.euid = RootId
             i2 == IF dropUid THEN [i1 EXCEPT !.ruid = uid, !.euid = uid] ELSE i1
             gidCall == IF dropGid THEN <<"setresgid">> ELSE <<>>
         IN  IF dropGid /\ ~MaySetIds(i, gid, {i.rgid, i.egid})
                 THEN [ok |-> FALSE, ids |-> i, calls |-> gidCall]
             ELSE IF dropUid /\ ~MaySetIds(i1, uid, {i1.ruid, i1.euid})
                 THEN [ok |-> FALSE, ids |-> i1, calls |-> Append(gidCall, "setresuid")]
             ELSE [ok |-> TRUE, ids |-> i2,
                   calls |-> IF dropUid THEN Append(gidCall, "setresuid") ELSE gidCall]

\* Tftpd::drop_privs: [ok, ids, calls], calls being the system calls made
drop_privs(i, uid, gid) ==
    IF i.rgid # RootId /\ i.egid # RootId /\ i.ruid # RootId /\ i.euid # RootId
        THEN [ok |-> TRUE, ids |-> i, calls |-> <<>>]
    ELSE LET dropGid == i.rgid = RootId \/ i.egid = RootId
             i1 == IF dropGid THEN [i EXCEPT !.rgid = gid, !.egid = gid] ELSE i
             dropUid == i1.ruid = RootId \/ i1.euid = RootId
             i2 == IF dropUid THEN [i1 EXCEPT !.ruid = uid, !.euid = uid] ELSE i1
             gidCall == IF dropGid THEN <<"setresgid">> ELSE <<>>
         IN  IF dropGid /\ ~MaySetIds(i, gid, {i.rgid, i.egid})
                 THEN [ok |-> FALSE, ids |-> i, calls |-> gidCall]
             ELSE IF dropUid /\ ~MaySetIds(i1, uid, {i1.ruid, i1.euid})
                 THEN [ok |-> FALSE, ids |-> i1, calls |-> Append(gidCall, "setresuid")]
             ELSE [ok |-> TRUE, ids |-> i2,
                   calls |-> IF dropUid THEN Append(gidCall, "setresuid") ELSE gidCall]

\* start() returns to main, main returns (): the process ends with status 0
MainReturns(step) ==
    /\ lpc' = "exited"
    /\ exitStatus' = Some(0)
    /\ failedAt' = step

\* UdpSocket::bind of the listening socket
Bind ==
    /\ lpc = "start"
    /\ \E ok \in BOOLEAN :
        IF ok THEN /\ lpc' = "bound"
                   /\ steps' = Append(steps, "bind")
                   /\ UNCHANGED <<exitStatus, failedAt>>
        ELSE MainReturns("bind") /\ UNCHANGED steps
    /\ UNCHANGED <<ids, ids0, conf, self_tftp, files, nrecv, sess>>

\* start() going from the bind straight to the chdir
DropPrivsSkipped ==
    /\ lpc = "bound"
    /\ lpc' = "dropped"
    /\ UNCHANGED <<exitStatus, failedAt, ids, ids0, steps, conf, self_tftp, files,
                   nrecv, sess>>

\* self.drop_privs(self.conf.uid, self.conf.gid)
DropPrivs ==
    /\ lpc = "bound"
    /\ LET r == drop_privs(ids, conf.uid, conf.gid)
       IN  /\ ids' = r.ids
           /\ IF r.ok THEN /\ lpc' = "dropped"
                           /\ steps' = Append(steps \o r.calls, "drop_privs")
                           /\ UNCHANGED <<exitStatus, failedAt>>
              ELSE MainReturns("privs") /\ steps' = steps \o r.calls
    /\ UNCHANGED <<ids0, conf, self_tftp, files, nrecv, sess>>

\* env::set_current_dir(&self.conf.dir), then ThreadPool::new
Chdir ==
    /\ lpc = "dropped"
    /\ \E ok \in BOOLEAN :
        IF ok THEN /\ lpc' = "loop"
                   /\ steps' = steps \o <<"chdir", "pool">>
                   /\ UNCHANGED <<exitStatus, failedAt>>
        ELSE MainReturns("chdir") /\ UNCHANGED steps
    /\ UNCHANGED <<ids, ids0, conf, self_tftp, files, nrecv, sess>>

(***************************************************************************)
(* The accept loop                                                         *)
(***************************************************************************)
\* recv_from succeeds: a clone of the server handles the datagram on the pool
ReceiveFrom(inputs) ==
    /\ lpc = "loop"
    /\ nrecv < MaxSessions
    /\ \E d \in inputs :
        sess' = [sess EXCEPT ![nrecv + 1] = [IdleSession EXCEPT !.pc = "queued",
                                                                  !.buf = d,
                                                                  !.tftp = self_tftp]]
    /\ nrecv' = nrecv + 1
    /\ UNCHANGED <<lpc, exitStatus, failedAt, ids, ids0, steps, conf, self_tftp, files>>

Recv == ReceiveFrom(Datagrams)

\* recv_from fails: the loop breaks, start and main return
RecvFails ==
    /\ lpc = "loop"
    /\ MainReturns("recv")
    /\ UNCHANGED <<ids, ids0, steps, conf, self_tftp, files, nrecv, sess>>

(***************************************************************************)
(* Session tasks on the worker pool                                        *)
(***************************************************************************)
Running(s) == sess[s].pc \in {"open", "xfer"}

\* the listener where a task's result is treated as fatal
after_task_fatal(l, result) == IF result \in {"err", "panic"} THEN "exited" ELSE l

\* the listener after a step of a task: the closure prints Ok and Err alike,
\* a panic unwinds the worker thread only
after_task(l, result) == l

\* the listener's protocol state when tasks work on the listener's own state
after_session_shared(own, worker) == worker

\* the listener's protocol state after a step of a task: the task works on
\* the clone moved into its closure
after_session(own, worker) == own

\* what a step of task s leaves of the process outside the task
TaskFrame(s) ==
    /\ lpc' = after_task(lpc, sess'[s].result)
    /\ self_tftp' = after_session(self_tftp, sess'[s].tftp)
    /\ UNCHANGED <<exitStatus, failedAt, ids, ids0, steps, conf, nrecv>>

\* the workers of a pool that hands tasks to busy workers too
IdleWorkers_any == 1..conf.threads

\* the workers of the pool that run no task
IdleWorkers == (1..conf.threads) \ {sess[t].worker : t \in {u \in Sessions : Running(u)}}
IsRrq(s) == ~sess[s].buf.short /\ sess[s].buf.opcode = RRQ
IsWrq(s) == ~sess[s].buf.short /\ sess[s].buf.opcode = WRQ

\* a free worker takes the oldest queued task and runs handle_client
HandleClient(s) ==
    /\ lpc = "loop"
    /\ sess[s].pc = "queued"
    /\ \A t \in Sessions : t < s => sess[t].pc # "queued"
    /\ \E w \in IdleWorkers :
        sess' = [sess EXCEPT ![s] =
            LET r == handle_client(sess[s], conf, files)
            IN  IF r.pc = "done" THEN r ELSE [r EXCEPT !.worker = w]]
    /\ UNCHANGED files
    /\ TaskFrame(s)

\* handle_wrq: create the destination, acknowledge the request
OpenWrq(s) ==
    /\ lpc = "loop"
    /\ sess[s].pc = "open"
    /\ IsWrq(s)
    /\ LET path == The(sess[s].guard)
           o == open_create_new(path, files)
           r == [sess[s] EXCEPT !.openPath = Some(path), !.openRes = o.res,
                                !.node = o.node]
       IN  IF o.res = "Ok"
               THEN /\ files' = (The(o.node) :> <<>>) @@ files
                    /\ sess' = [sess EXCEPT ![s] =
                                  [ack_options(r, FALSE) EXCEPT !.pc = "xfer"]]
           ELSE IF o.res = "AlreadyExists"
               THEN /\ sess' = [sess EXCEPT ![s] =
                                  Return(send_error(r, 6, "File already exists"), "err")]
                    /\ UNCHANGED files
           ELSE /\ sess' = [sess EXCEPT ![s] =
                              Return(send_error(r, 6, "Permission denied"), "err")]
                /\ UNCHANGED files
    /\ TaskFrame(s)

\* handle_rrq: open the file, require a regular file, acknowledge the options
OpenRrq(s) ==
    /\ lpc = "loop"
    /\ sess[s].pc = "open"
    /\ IsRrq(s)
    /\ LET path == The(sess[s].guard)
           o == open_read(path, files)
           r == [sess[s] EXCEPT !.openPath = Some(path), !.openRes = o.res,
                                !.node = o.node]
       IN  sess' = [sess EXCEPT ![s] =
              IF o.res = "NotFound"
                  THEN Return(send_error(r, 1, "File not found"), "err")
              ELSE IF o.res # "Ok"
                  THEN Return(send_error(r, 2, "Permission denied"), "err")
              ELSE IF ~is_file(The(o.node), files)
                  THEN Return(send_error(r, 1, "File not found"), "err")
              ELSE [ack_options(r, TRUE) EXCEPT !.pc = "xfer"]]
    /\ UNCHANGED files
    /\ TaskFrame(s)

\* Tftp::recv_file: a DATA block arrives, is written and acknowledged
RecvData(s) ==
    /\ lpc = "loop"
    /\ sess[s].pc = "xfer"
    /\ IsWrq(s)
    /\ sess[s].blk < MaxBlocks
    /\ LET n == sess[s].blk + 1
           f == The(sess[s].node)
       IN  /\ files' = [files EXCEPT ![f] = Append(@, [by |-> s, blk |-> n])]
           /\ \E last \in BOOLEAN :
                sess' = [sess EXCEPT ![s] =
                    LET r == [Send(sess[s], ACK, n) EXCEPT !.blk = n]
                    IN  IF last THEN Return(r, "ok") ELSE r]
    /\ TaskFrame(s)

\* the files after a failed upload that is cleaned up
files_failed_removed(fs, node) == [p \in DOMAIN fs \ {node} |-> fs[p]]

\* the files after recv_file failed: handle_wrq reports the error and returns,
\* the destination stays as far as it was written
files_failed(fs, node) == fs

\* Tftp::recv_file fails; handle_wrq reports "Receiving error"
RecvFileFails(s) ==
    /\ lpc = "loop"
    /\ sess[s].pc = "xfer"
    /\ IsWrq(s)
    /\ \E peer \in BOOLEAN :
        sess' = [sess EXCEPT ![s] =
            Return(send_error([sess[s] EXCEPT !.peerErr = peer], 0, "Receiving error"),
                   "err")]
    /\ files' = files_failed(files, The(sess[s].node))
    /\ TaskFrame(s)

\* Tftp::send_file: a DATA block is sent and acknowledged
SendData(s) ==
    /\ lpc = "loop"
    /\ sess[s].pc = "xfer"
    /\ IsRrq(s)
    /\ sess[s].blk < MaxBlocks
    /\ \E last \in BOOLEAN :
        sess' = [sess EXCEPT ![s] =
            LET n == sess[s].blk + 1
                r == [Send(sess[s], DATA, n) EXCEPT !.blk = n]
            IN  IF last THEN Return(r, "ok") ELSE r]
    /\ UNCHANGED files
    /\ TaskFrame(s)

\* Tftp::send_file fails; handle_rrq returns the error
SendFileFails(s) ==
    /\ lpc = "loop"
    /\ sess[s].pc = "xfer"
    /\ IsRrq(s)
    /\ \E peer \in BOOLEAN :
        sess' = [sess EXCEPT ![s] = Return([sess[s] EXCEPT !.peerErr = peer], "err")]
    /\ UNCHANGED files
    /\ TaskFrame(s)

\* a datagram from a peer other than the client is sent to the port of the
\* task's socket: the socket is connected to the client, the kernel does not
\* deliver the datagram and the task never sees it
ForeignDatagram(s) ==
    /\ lpc = "loop"
    /\ sess[s].pc = "xfer"
    /\ ~sess[s].foreign
    /\ sess' = [sess EXCEPT ![s].foreign = TRUE]
    /\ UNCHANGED <<lpc, exitStatus, failedAt, ids, ids0, steps, conf, self_tftp, files,
                   nrecv>>

SessionStep(s) ==
    \/ HandleClient(s)
    \/ OpenWrq(s)
    \/ OpenRrq(s)
    \/ RecvData(s)
    \/ RecvFileFails(s)
    \/ SendData(s)
    \/ SendFileFails(s)

(***************************************************************************)
(* Spec: the whole daemon.                                                 *)
(***************************************************************************)
Init ==
    /\ lpc = "start"
    /\ exitStatus = None
    /\ failedAt = "none"
    /\ ids \in StartIds
    /\ ids0 = ids
    /\ steps = <<>>
    /\ conf \in Confs
    /\ self_tftp = DefaultTftp
    /\ files = InitFiles
    /\ nrecv = 0
    /\ sess = [s \in Sessions |-> IdleSession]

Next ==
    \/ Bind
    \/ DropPrivs
    \/ Chdir
    \/ Recv
    \/ RecvFails
    \/ \E s \in Sessions : SessionStep(s)

Spec == Init /\ [][Next]_vars

(***************************************************************************)
(* SpecSession: one session task of a running daemon, for every initial    *)
(* datagram of AllDatagrams, with datagrams of foreign peers addressed to  *)
(* the task's socket.                                                      *)
(***************************************************************************)
InitSession ==
    /\ lpc = "loop"
    /\ exitStatus = None
    /\ failedAt = "none"
    /\ ids = Ids(UnprivId, UnprivId, UnprivId, UnprivId)
    /\ ids0 = Ids(RootId, RootId, RootId, RootId)
    /\ steps = <<"bind", "setresgid", "setresuid", "drop_privs", "chdir", "pool">>
    /\ conf \in Confs
    /\ self_tftp = DefaultTftp
    /\ files \in {InitFiles, (<<"srv", "new">> :> <<Orig>>) @@ InitFiles}
    /\ nrecv = 1
    /\ \E d \in AllDatagrams :
        sess = [s \in Sessions |->
                  IF s = 1 THEN [IdleSession EXCEPT !.pc = "queued", !.buf = d]
                  ELSE IdleSession]

NextSession ==
    \/ \E s \in Sessions : SessionStep(s)
    \/ \E s \in Sessions : ForeignDatagram(s)

SpecSession == InitSession /\ [][NextSession]_vars

(***************************************************************************)
(* SpecPool: the accept loop and the pool of a running daemon configured   *)
(* with one or two worker threads.  Worker threads are operating system    *)
(* threads and every blocking call of a task is bounded by the read        *)
(* timeout and the retry limit, so while some task can take a step, a task *)
(* takes one.                                                              *)
(***************************************************************************)
PoolDatagrams ==
    { Request(WRQ, Rel(<<"new">>), "octet", {}),
      Request(RRQ, Rel(<<"exists">>), "octet", {"tsize"}) }

PoolConfs == {Conf(FALSE, FALSE, UnprivId, UnprivId, n) : n \in 1..Threads}

InitPool ==
    /\ lpc = "loop"
    /\ exitStatus = None
    /\ failedAt = "none"
    /\ ids = Ids(UnprivId, UnprivId, UnprivId, UnprivId)
    /\ ids0 = Ids(RootId, RootId, RootId, RootId)
    /\ steps = <<"bind", "setresgid", "setresuid", "drop_privs", "chdir", "pool">>
    /\ conf \in PoolConfs
    /\ self_tftp = DefaultTftp
    /\ files = InitFiles
    /\ nrecv = 0
    /\ sess = [s \in Sessions |-> IdleSession]

RecvPool == ReceiveFrom(PoolDatagrams)

NextPool ==
    \/ RecvPool
    \/ RecvFails
    \/ \E s \in Sessions : SessionStep(s)

SpecPool ==
    /\ InitPool
    /\ [][NextPool]_vars
    /\ WF_vars(\E s \in Sessions : SessionStep(s))

(***************************************************************************)
(* SpecPrivs: the startup of the daemon for every combination of real and  *)
(* effective uid and gid being root or not, and every combination of two   *)
(* configured unprivileged ids.                                            *)
(***************************************************************************)
AllStartIds ==
    {Ids(ru, eu, rg, eg) : ru \in {RootId, UserId}, eu \in {RootId, UserId},
                           rg \in {RootId, UserId}, eg \in {RootId, UserId}}

PrivConfs ==
    {Conf(FALSE, FALSE, u, g, Threads) : u \in {UnprivId, UserId},
                                         g \in {UnprivId, UserId}}

InitPrivs ==
    /\ lpc = "start"
    /\ exitStatus = None
    /\ failedAt = "none"
    /\ ids \in AllStartIds
    /\ ids0 = ids
    /\ steps = <<>>
    /\ conf \in PrivConfs
    /\ self_tftp = DefaultTftp
    /\ files = InitFiles
    /\ nrecv = 0
    /\ sess = [s \in Sessions |-> IdleSession]

NextPrivs ==
    \/ Bind
    \/ DropPrivs
    \/ Chdir

SpecPrivs == InitPrivs /\ [][NextPrivs]_vars

(***************************************************************************)
(* Properties                                                              *)
(***************************************************************************)
IsPrefix(a, b) == Len(a) <= Len(b) /\ \A i \in 1..Len(a) : a[i] = b[i]
ErrorPacket(code, msg) == Packet(ERROR, code, msg, 0)
Started(s) == sess[s].pc \notin {"idle", "queued"}
Failed(s) == sess[s].pc = "done" /\ sess[s].result = "err"
SentErrorCodes(s) ==
    {sess[s].sent[i].code : i \in {j \in 1..Len(sess[s].sent) : sess[s].sent[j].op = ERROR}}

\* the absolute paths "canonical parent of ./filename, joined with the basename"
GuardTargets(filename, fs) ==
    {Append(canon, base) :
        canon \in UNION {Canonicalize(par, fs) : par \in PathParent(PathJoin(filename))},
        base \in PathFileName(filename)}

\* the file system entry a guarded path names: none for the empty path
Entry(rel, fs) ==
    IF rel = <<>> THEN {}
    ELSE {Append(d, Last(rel)) : d \in Walk(Cwd, Front(rel), fs)}

\* C1: path confinement.  The guard returns a path exactly when the
\* canonicalized parent of ./filename joined with the basename has the service
\* root as a component-wise prefix, and the returned path is that path relative
\* to the root; every open is made with the guard's result; every file the
\* server creates lies below the service root.
C1_PathConfinement ==
    /\ \A s \in Sessions : sess[s].guardRan =>
        LET fn == sess[s].buf.filename
            targets == GuardTargets(fn, files)
        IN  /\ sess[s].guard # None <=> \E t \in targets : IsPrefix(Cwd, t)
            /\ \A g \in sess[s].guard : targets = {Cwd \o g}
    /\ \A s \in Sessions : sess[s].openPath # None =>
        /\ sess[s].guardRan
        /\ sess[s].openPath = sess[s].guard
    /\ \A s \in Sessions : \A n \in sess[s].node :
        n \in DOMAIN files /\ IsWrq(s) => IsPrefix(Cwd, n)

\* a request whose filename leaves and re-enters the root through "sub/.." is
\* opened under the guarded path "new", not under the client's string
C1_Witness ==
    \E s \in Sessions :
        /\ sess[s].buf.filename = Rel(<<"sub", "..", "new">>)
        /\ sess[s].openPath = Some(<<"new">>)
        /\ sess[s].openRes = "Ok"

\* C2: a request whose filename the guard rejects ends with exactly one packet,
\* ERROR(2, "Permission denied"), an error result, and no open of any file.
C2_GuardRejection ==
    \A s \in Sessions : sess[s].guardRan /\ sess[s].guard = None =>
        /\ Failed(s)
        /\ sess[s].sent = <<ErrorPacket(2, "Permission denied")>>
        /\ sess[s].openPath = None
        /\ sess[s].openRes = "none"
        /\ sess[s].node = None
        /\ \A p \in DOMAIN files : \A i \in 1..Len(files[p]) : files[p][i].by # s

C2_Witness ==
    \E s \in Sessions :
        /\ IsRrq(s)
        /\ sess[s].buf.filename = Rel(<<"..", "etc", "passwd">>)
        /\ sess[s].buf.options # {}
        /\ sess[s].guardRan
        /\ sess[s].guard = None
        /\ sess[s].pc = "done"

\* C3: in a write-only server every RRQ, and in a read-only server every WRQ,
\* ends with exactly ERROR(4, "reading not allowed" / "writing not allowed")
\* and an error result, without the request being parsed, the guard being run
\* or a file being opened.
C3_AccessMode ==
    \A s \in Sessions : Started(s) =>
        /\ IsRrq(s) /\ conf.wo =>
            /\ Failed(s)
            /\ sess[s].sent = <<ErrorPacket(4, "reading not allowed")>>
            /\ ~sess[s].parsed /\ ~sess[s].guardRan
            /\ sess[s].openPath = None /\ sess[s].node = None
        /\ IsWrq(s) /\ conf.ro =>
            /\ Failed(s)
            /\ sess[s].sent = <<ErrorPacket(4, "writing not allowed")>>
            /\ ~sess[s].parsed /\ ~sess[s].guardRan
            /\ sess[s].openPath = None /\ sess[s].node = None

C3_Witness ==
    \E s \in Sessions :
        /\ conf.ro
        /\ sess[s].buf = Request(WRQ, Rel(<<"new">>), "octet", {})
        /\ sess[s].pc = "done"
        /\ <<"srv", "new">> \notin DOMAIN files

\* C4: the step in which a WRQ opens a guarded destination that already exists
\* ends the session with exactly ERROR(6, "File already exists") and an error
\* result, and leaves every file as it was.
C4_ExistingDestination ==
    [][\A s \in Sessions :
         (/\ sess[s].pc = "open"
          /\ sess'[s].pc # "open"
          /\ IsWrq(s)
          /\ \E e \in Entry(The(sess[s].guard), files) :
                Front(e) \in Dirs /\ Exists(e, files))
         => /\ sess'[s].pc = "done"
            /\ sess'[s].result = "err"
            /\ sess'[s].sent = <<ErrorPacket(6, "File already exists")>>
            /\ files' = files]_vars

C4_Witness ==
    \E s \in Sessions :
        /\ sess[s].buf = Request(WRQ, Rel(<<"exists">>), "octet", {"blksize", "tsize"})
        /\ sess[s].openRes = "AlreadyExists"
        /\ sess[s].pc = "done"
        /\ files[<<"srv", "exists">>] = <<Orig>>

\* C5: of the WRQ sessions that open the same destination at most one creates
\* it; the others end with ERROR(6, "File already exists"); a file is written
\* by no session but the one that created it.
C5_ExclusiveCreate ==
    /\ \A s, t \in Sessions :
        (/\ s # t /\ IsWrq(s) /\ IsWrq(t)
         /\ sess[s].openRes = "Ok"
         /\ \E q \in sess[t].openPath : Entry(q, files) = sess[s].node)
        => /\ sess[t].openRes = "AlreadyExists"
           /\ Failed(t)
           /\ sess[t].sent = <<ErrorPacket(6, "File already exists")>>
    /\ \A p \in DOMAIN files : \A i \in 1..Len(files[p]) :
        LET w == files[p][i].by
        IN  w # 0 => /\ IsWrq(w)
                     /\ sess[w].node = Some(p)
                     /\ \A j \in 1..Len(files[p]) : files[p][j].by = w

\* the session received second creates the file and is still receiving while
\* the session received first, for the same filename, has been refused
C5_Witness ==
    /\ sess[1].buf = Request(WRQ, Rel(<<"new">>), "octet", {})
    /\ sess[2].buf = sess[1].buf
    /\ sess[2].openRes = "Ok"
    /\ sess[2].pc = "xfer"
    /\ Len(files[<<"srv", "new">>]) = 1
    /\ sess[1].openRes = "AlreadyExists"

\* C6 (as claimed): a WRQ whose open fails for a reason other than the file
\* already existing is answered with ERROR code 2.
C6_OtherOpenFailure ==
    \A s \in Sessions :
        IsWrq(s) /\ sess[s].openRes \notin {"none", "Ok", "AlreadyExists"} =>
            /\ Failed(s)
            /\ SentErrorCodes(s) = {2}

C8_MalformedNotified ==
    \A s \in Sessions :
        (/\ sess[s].pc = "done"
         /\ \/ sess[s].buf.short
            \/ sess[s].buf.opcode \in {RRQ, WRQ} /\ sess[s].buf.fmt # "ok")
        => 4 \in SentErrorCodes(s)

\* C9 (as claimed): a session that ends with an error has sent an ERROR packet,
\* unless it ended because the peer sent an ERROR, and then it has sent none.
C9_ErrorReported ==
    \A s \in Sessions : Failed(s) =>
        IF sess[s].peerErr THEN SentErrorCodes(s) = {}
        ELSE SentErrorCodes(s) # {}

\* C10 (as claimed): when bind, the privilege drop or chdir fails, the process
\* exits with a nonzero status and no session was ever received or started.
C10_StartupFailure ==
    failedAt \in {"bind", "privs", "chdir"} =>
        /\ lpc = "exited"
        /\ exitStatus # None
        /\ 0 \notin exitStatus
        /\ nrecv = 0
        /\ \A s \in Sessions : sess[s].pc = "idle"

Count(seq, x) == Cardinality({i \in 1..Len(seq) : seq[i] = x})
StartSteps(seq) ==
    SelectSeq(seq, LAMBDA x : x \in {"bind", "drop_privs", "chdir", "pool"})

\* C11: start() binds the listening socket, then drops privileges, then
\* changes into the service directory, then creates the pool and enters the
\* accept loop.  drop_privs succeeds at most once, and whenever the accept loop
\* has been entered, a datagram has been received, a task exists or a file has
\* been created, bind, drop_privs and chdir have each succeeded exactly once,
\* in that order.
C11_StartupOrder ==
    /\ Count(steps, "drop_privs") <= 1
    /\ (\/ lpc = "loop"
        \/ nrecv > 0
        \/ \E s \in Sessions : sess[s].pc # "idle"
        \/ files # InitFiles)
       => StartSteps(steps) = <<"bind", "drop_privs", "chdir", "pool">>

\* a process started as root has dropped both identities and then created a file
C11_Witness ==
    /\ steps = <<"bind", "setresgid", "setresuid", "drop_privs", "chdir", "pool">>
    /\ ids.euid = UnprivId
    /\ <<"srv", "new">> \in DOMAIN files

\* C12 (as claimed): every queued task is eventually started.
C12_QueuedStarted ==
    \A s \in Sessions : (sess[s].pc = "queued") ~> (sess[s].pc # "queued")

\* C12: with N worker threads at most N tasks run at any time, each on one
\* worker of its own that it keeps until it ends; the accept loop can receive
\* whenever datagrams remain, however many workers are busy; every received
\* datagram has made exactly one task; every queued task is eventually
\* started unless the accept loop has ended, which ends the process.
C12_WorkerPool ==
    /\ [](/\ Cardinality({s \in Sessions : Running(s)}) <= conf.threads
          /\ \A s \in Sessions :
                IF Running(s) THEN sess[s].worker \in 1..conf.threads
                ELSE sess[s].worker = 0
          /\ \A s, t \in Sessions :
                Running(s) /\ Running(t) /\ s # t => sess[s].worker # sess[t].worker
          /\ \A s \in Sessions : sess[s].pc # "idle" <=> s <= nrecv
          /\ lpc = "loop" /\ nrecv < MaxSessions => ENABLED RecvPool)
    /\ [][\A s \in Sessions :
            Running(s) /\ sess'[s].pc \in {"open", "xfer"}
                => sess'[s].worker = sess[s].worker]_vars
    /\ \A s \in Sessions :
        (sess[s].pc = "queued") ~> (sess[s].pc # "queued" \/ lpc = "exited")

\* every worker of a one-thread pool is busy and a further datagram has been
\* received and queued
C12_Witness ==
    /\ conf.threads = 1
    /\ sess[1].pc = "xfer"
    /\ sess[2].pc = "queued"

\* C13: a step in which a task ends with an error or a panic leaves the
\* accept loop, the process and every other task as they were; the accept
\* loop is left only by the step in which recv_from fails, and that step
\* changes no task.
C13_SessionErrorsContained ==
    [][/\ \A s \in Sessions :
            (/\ sess[s].pc # "done"
             /\ sess'[s].pc = "done"
             /\ sess'[s].result \in {"err", "panic"})
            => /\ lpc' = lpc
               /\ exitStatus' = exitStatus
               /\ failedAt' = failedAt
               /\ \A t \in Sessions \ {s} : sess'[t] = sess[t]
       /\ lpc = "loop" /\ lpc' # "loop"
            => /\ failedAt' = "recv"
               /\ sess' = sess]_vars

\* the first task panicked on a datagram of fewer than two bytes; the second,
\* started after it, has completed its transfer and the loop still accepts
C13_Witness ==
    /\ lpc = "loop"
    /\ sess[1].result = "panic"
    /\ sess[2].pc = "done"
    /\ sess[2].result = "ok"
    /\ sess[2].blk > 0

\* C14 (as claimed): a datagram that reached a task's socket from a peer other
\* than its client has been answered with an ERROR packet of code 5.
C14_ForeignAnswered ==
    \A s \in Sessions : sess[s].foreign => 5 \in SentErrorCodes(s)

NoFileTouched(s) ==
    /\ ~sess[s].guardRan
    /\ sess[s].openPath = None
    /\ sess[s].openRes = "none"
    /\ sess[s].node = None
    /\ \A p \in DOMAIN files : \A i \in 1..Len(files[p]) : files[p][i].by # s

\* C15: a task whose initial datagram has the opcode ERROR ends with an Ok
\* result and no packet sent; a task whose initial datagram has an opcode other
\* than RRQ, WRQ and ERROR ends with exactly ERROR(4, "Unexpected opcode") and
\* an error result; in both cases no guard is run and no file is opened or
\* created.
C15_OpcodeClassification ==
    \A s \in Sessions : Started(s) /\ ~sess[s].buf.short =>
        /\ sess[s].buf.opcode = ERROR =>
            /\ sess[s].pc = "done"
            /\ sess[s].result = "ok"
            /\ sess[s].sent = <<>>
            /\ NoFileTouched(s)
        /\ sess[s].buf.opcode \notin {RRQ, WRQ, ERROR} =>
            /\ Failed(s)
            /\ sess[s].sent = <<ErrorPacket(4, "Unexpected opcode")>>
            /\ NoFileTouched(s)

\* a task started by an initial ERROR packet has ended
C15_Witness ==
    \E s \in Sessions :
        /\ sess[s].buf = Plain(ERROR)
        /\ sess[s].pc = "done"
        /\ sess[s].socket = SessionSocket

NonOctetRequest(s) ==
    /\ Started(s)
    /\ IsRrq(s) \/ IsWrq(s)
    /\ sess[s].buf.fmt = "ok"
    /\ ToLower(sess[s].buf.mode) # "octet"

UnsupportedMode(s) ==
    /\ Failed(s)
    /\ sess[s].sent = <<ErrorPacket(0, "Unsupported mode")>>
    /\ NoFileTouched(s)

\* C16 (as claimed): every RRQ or WRQ whose transfer mode is not octet ends
\* with exactly ERROR(0, "Unsupported mode"), no guard run and no file opened.
C16_NonOctetRejected ==
    \A s \in Sessions : NonOctetRequest(s) => UnsupportedMode(s)

\* C16: every RRQ or WRQ that the access-mode policy admits and whose transfer
\* mode is not octet ends with exactly ERROR(0, "Unsupported mode") and an
\* error result, before the path guard is run and without a file being opened
\* or created.
C16_AdmittedNonOctetRejected ==
    \A s \in Sessions :
        (/\ NonOctetRequest(s)
         /\ ~(IsRrq(s) /\ conf.wo)
         /\ ~(IsWrq(s) /\ conf.ro))
        => UnsupportedMode(s)

\* a netascii WRQ for a filename the guard would accept and that does not exist
C16_Witness ==
    \E s \in Sessions :
        /\ sess[s].buf = Request(WRQ, Rel(<<"new">>), "netascii", {})
        /\ ~conf.ro
        /\ sess[s].pc = "done"
        /\ <<"srv", "new">> \notin DOMAIN files

Acknowledged(s) ==
    \E i \in 1..Len(sess[s].sent) : sess[s].sent[i].op \in {OACK, ACK, DATA}

CheckMessages ==
    {"Unsupported mode", "Permission denied", "File not found", "File already exists"}

\* C17: a task has sent an OACK, ACK or DATA packet, or is in or past the
\* transfer engine, only if the request was parsed, its mode is octet, the
\* guard returned a path, and the open of that path succeeded (on a regular
\* file for an RRQ); the open is made only after the guard accepted and the
\* guard is run only after the mode check passed; a task that has sent the
\* ERROR of the mode check, the guard or the open has sent nothing else, has
\* transferred no block and has ended.
C17_StepOrder ==
    \A s \in Sessions :
        /\ Acknowledged(s) \/ sess[s].pc = "xfer" \/ sess[s].blk > 0 =>
            /\ sess[s].parsed
            /\ ToLower(sess[s].buf.mode) = "octet"
            /\ sess[s].guardRan
            /\ sess[s].guard # None
            /\ sess[s].openPath = sess[s].guard
            /\ sess[s].openRes = "Ok"
            /\ IsRrq(s) => The(sess[s].node) \in DOMAIN files
        /\ sess[s].openPath # None => sess[s].guardRan /\ sess[s].guard # None
        /\ sess[s].guardRan => sess[s].parsed /\ ToLower(sess[s].buf.mode) = "octet"
        /\ \A i \in 1..Len(sess[s].sent) :
            sess[s].sent[i].op = ERROR /\ sess[s].sent[i].msg \in CheckMessages =>
                /\ Len(sess[s].sent) = 1
                /\ sess[s].blk = 0
                /\ sess[s].pc = "done"

\* an RRQ with options has passed the three checks, sent its OACK and then
\* a DATA block
C17_Witness ==
    \E s \in Sessions :
        /\ IsRrq(s)
        /\ Len(sess[s].sent) = 2
        /\ sess[s].sent[1].op = OACK
        /\ sess[s].sent[2].op = DATA

GidRoot(i) == i.rgid = RootId \/ i.egid = RootId
UidRoot(i) == i.ruid = RootId \/ i.euid = RootId

\* C18: drop_privs never calls setresuid before setresgid and calls each at
\* most once, and only for an axis whose real or effective id is root.  When
\* it has succeeded, an axis was set exactly when its real or effective id was
\* root at the start: a set axis has the configured id as real and effective
\* id, a skipped axis is unchanged; with nonzero configured ids no real or
\* effective uid or gid is root afterwards.
C18_PrivilegeDrop ==
    /\ Count(steps, "setresgid") <= 1
    /\ Count(steps, "setresuid") <= 1
    /\ \A i, j \in 1..Len(steps) :
        steps[i] = "setresuid" /\ steps[j] = "setresgid" => j < i
    /\ Count(steps, "setresgid") = 1 => GidRoot(ids0)
    /\ Count(steps, "setresuid") = 1 => UidRoot(ids0)
    /\ Count(steps, "drop_privs") = 1 =>
        /\ Count(steps, "setresgid") = 1 <=> GidRoot(ids0)
        /\ Count(steps, "setresuid") = 1 <=> UidRoot(ids0)
        /\ IF GidRoot(ids0) THEN ids.rgid = conf.gid /\ ids.egid = conf.gid
           ELSE ids.rgid = ids0.rgid /\ ids.egid = ids0.egid
        /\ IF UidRoot(ids0) THEN ids.ruid = conf.uid /\ ids.euid = conf.uid
           ELSE ids.ruid = ids0.ruid /\ ids.euid = ids0.euid
        /\ conf.uid # RootId /\ conf.gid # RootId =>
            /\ ids.ruid # RootId /\ ids.euid # RootId
            /\ ids.rgid # RootId /\ ids.egid # RootId

\* started with effective uid root and real gid root only: both axes are set,
\* the group first
C18_Witness ==
    /\ ids0 = Ids(UserId, RootId, RootId, UserId)
    /\ steps = <<"bind", "setresgid", "setresuid", "drop_privs">>
    /\ ids = Ids(UnprivId, UnprivId, UnprivId, UnprivId)

\* the protocol state of a task that depends on its own request alone
OwnTftp(s) ==
    IF sess[s].parsed THEN tftp_after_options(DefaultTftp, sess[s].buf.options)
    ELSE DefaultTftp

\* C19: the listener's protocol state is never changed; a task is queued with
\* the default protocol state and without a socket; the protocol state and
\* the accepted options of a started task are those of its own request, whatever
\* other tasks negotiated; a started task's socket is the one it bound itself,
\* never the listening socket.
C19_SessionIsolation ==
    /\ self_tftp = DefaultTftp
    /\ \A s \in Sessions : ~Started(s) =>
        /\ sess[s].tftp = DefaultTftp
        /\ sess[s].options = {}
        /\ sess[s].socket = "none"
    /\ \A s \in Sessions : Started(s) =>
        /\ sess[s].tftp = OwnTftp(s)
        /\ sess[s].options \subseteq sess[s].buf.options
        /\ sess[s].socket = SessionSocket
        /\ sess[s].socket # ListenSocket

\* while the first task transfers with the block size it negotiated, the
\* second task has started with the default protocol state
C19_Witness ==
    /\ sess[1].pc = "xfer"
    /\ sess[1].tftp.blksize = 1024
    /\ sess[2].parsed
    /\ sess[2].buf.options = {}
    /\ sess[2].tftp = DefaultTftp

\* C20: the destination of a WRQ whose open succeeded exists from the open
\* on, also after the task has ended, with or without an error, and holds the
\* blocks received so far; once a WRQ task has failed after creating its
\* destination, every other WRQ task that has opened that destination has
\* been refused with exactly ERROR(6, "File already exists").
C20_FailedUploadKept ==
    /\ \A s \in Sessions : IsWrq(s) /\ sess[s].openRes = "Ok" =>
        /\ The(sess[s].node) \in DOMAIN files
        /\ Len(files[The(sess[s].node)]) = sess[s].blk
    /\ \A s, t \in Sessions :
        (/\ s # t /\ IsWrq(s) /\ IsWrq(t)
         /\ sess[s].openRes = "Ok"
         /\ Failed(s)
         /\ sess[t].openRes # "none"
         /\ sess[t].buf.filename = sess[s].buf.filename)
        => /\ sess[t].openRes = "AlreadyExists"
           /\ Failed(t)
           /\ sess[t].sent = <<ErrorPacket(6, "File already exists")>>
           /\ The(sess[s].node) \in DOMAIN files

\* the first WRQ failed after one block was written; the second WRQ for the
\* same filename finds the partial file and is refused
C20_Witness ==
    /\ sess[1].buf = Request(WRQ, Rel(<<"new">>), "octet", {})
    /\ Failed(1)
    /\ sess[1].blk = 1
    /\ Len(files[<<"srv", "new">>]) = 1
    /\ sess[2].buf = sess[1].buf
    /\ sess[2].openRes = "AlreadyExists"

====
